---- MODULE Spec2Model ----
(***************************************************************************)
(* KgBites order authorization / fulfilment.                               *)
(*                                                                         *)
(* Spec      : OrderService (services/orderService.js) used from one tab,  *)
(*             on the browser's localStorage keys and the tab's            *)
(*             sessionStorage backup; every method runs to completion.     *)
(* SpecTabs  : two tabs of one origin deliver for the same order; a tab's  *)
(*             markCounterDelivered reads the order and writes it back in  *)
(*             two steps, between which the other tab may run.             *)
(* SpecStaff : the staff portal's CounterInterface (fetchOrder, item       *)
(*             checks, markAsDelivered) of two staff clients against the   *)
(*             server's OTP record.                                        *)
(* Time is counted in hours.                                               *)
(***************************************************************************)
EXTENDS Integers, Sequences, FiniteSets, TLC

\* ------------------------------------------------------------------ bounds
MaxTime == 48
TickStep == 24

\* ------------------------------------------------------- program constants
TTL == 24
UNSET == -1

Codes == {"TS1234", "AB1234"}
Tabs == {"tab1", "tab2"}
Staff == {"staff1", "staff2"}
availableCounters == <<"Veg & Meals", "Biriyani & Chinese", "Snacks">>
\* counter names a delivery is called with
Counters == {"Veg & Meals", "Snacks"}
ItemIds == {1, 2, 3}
\* item-id lists a delivery is called with: none, one counter's item, the other's
DeliveredItemLists == {{}, {1}, {2}}

allKeys ==
  <<"kgbites_orders", "kgbites_shared_orders", "kgbites_student_orders",
    "kgbites_staff_orders", "kgbites_cross_port_orders">>

storageKey == "kgbites_orders"

\* createTestOrder's order: two counters, one item each, none delivered.
testOrder ==
  [order_code |-> "TS1234",
   items_by_counter |-> ("Veg & Meals" :> (1 :> FALSE)) @@ ("Snacks" :> (2 :> FALSE)),
   counters_involved |-> <<"Veg & Meals", "Snacks">>,
   counters_completed |-> <<>>,
   is_complete |-> FALSE,
   used_at |-> UNSET]

\* The order handleConfirmOrder saves for a cart with two items of one counter:
\* items_by_counter is keyed by the counter's id, counters_involved lists the
\* ids (written here as the same strings).
newOrder ==
  [order_code |-> "AB1234",
   items_by_counter |-> ("1" :> ((1 :> FALSE) @@ (3 :> FALSE))),
   counters_involved |-> <<"1">>,
   counters_completed |-> <<>>,
   is_complete |-> FALSE,
   used_at |-> UNSET]

VARIABLES
  now,             \* Date.now(), in hours
  localStorage,    \* key -> (order code -> order record), shared by the tabs
  sessionStorage,  \* tab -> (order code -> order record): 'kgbites_orders_backup'
  srv,             \* order code -> the server's OTP record (status, used_at, expires_at, payload)
  ret,             \* the last markCounterDelivered / markOrderAsUsed call and what it returned
  pending,         \* SpecTabs: tab -> the order a markCounterDelivered in progress is about to write
  acked,           \* SpecTabs: counters whose delivery call has returned true
  currentOrder,    \* SpecStaff: staff client -> the order loaded in its CounterInterface
  selectedCounter, \* SpecStaff: staff client -> the counter selected
  checkedItems,    \* SpecStaff: staff client -> the item ids checked
  handedOver,      \* SpecStaff: order code -> counters whose markAsDelivered has succeeded
  attempts,        \* SpecGen: generateOrderCode's attempts
  code,            \* SpecGen: generateOrderCode's code ("" before the first draw)
  generated,       \* SpecGen: generateOrderCode has returned code
  pageOrders,      \* SpecPoll: OrdersPage's orders state (order code -> order)
  mounted,         \* SpecPoll: the OrdersPage is mounted
  intervalId,      \* SpecPoll: the current effect's interval is set
  inflight,        \* SpecPoll: status requests answered by the server, response not yet delivered
  requested,       \* SpecPoll: flips whenever the orders page sends status requests
  cartItems,       \* SpecCart: Dashboard's cartItems state (item id -> quantity)
  cart,            \* SpecCart: the CartContext reducer's state (items, totalItems)
  ledger,          \* SpecCart: the server's stock ledger (item id -> remaining quantity)
  confirmRet,      \* SpecCart: how the last handleConfirmOrder ended
  deliverRequest,  \* SpecDeliver: staff client -> the body of its last deliver request
  startedBy        \* SpecPoll: what called the latest syncAll: "none", "load" (mount), "interval" (a tick), "effect" (re-run after setOrders)

serviceVars == <<now, localStorage, sessionStorage, srv, ret>>
tabVars == <<pending, acked>>
staffVars == <<currentOrder, selectedCounter, checkedItems, handedOver>>
genVars == <<attempts, code, generated>>
pollVars == <<pageOrders, mounted, intervalId, inflight, requested, startedBy>>
cartVars == <<cartItems, cart, ledger, confirmRet>>
deliverVars == <<deliverRequest>>
vars == <<serviceVars, tabVars, staffVars, genVars, pollVars, cartVars, deliverVars>>

NoOrders == [c \in {} |-> FALSE]

\* the largest stock of a food item
MaxStock == 2

\* the menu's food items with the stock the catalog shows for each
stock == (1 :> MaxStock) @@ (2 :> 0) @@ (3 :> 1)

\* an empty cart
NoItems == [i \in {} |-> 0]

\* CartContext's initialState
initialState == [items |-> NoItems, totalItems |-> 0]

\* { ...a, ...b }
Spread(a, b) == [f \in (DOMAIN a) \cup (DOMAIN b) |-> IF f \in DOMAIN b THEN b[f] ELSE a[f]]

Range(s) == {s[i] : i \in 1..Len(s)}

Includes(s, x) == \E i \in 1..Len(s) : s[i] = x

\* The storage one tab sees: the shared localStorage and its own sessionStorage.
Store(t) == [ls |-> localStorage, ss |-> sessionStorage[t]]

WriteAllKeys(ls, orders) == [k \in DOMAIN ls |-> orders]

RECURSIVE MergeKeys(_, _, _)
MergeKeys(ls, i, acc) ==
  IF i > Len(allKeys) THEN acc
  ELSE MergeKeys(ls, i + 1, Spread(acc, ls[allKeys[i]]))

\* an expiry test that lets an order live one more period after expires_at
ExpiredAfterGrace(order, t) == order.expires_at /= UNSET /\ order.expires_at + TTL < t

\* expires_at && new Date(expires_at) < now
Expired(order, t) == order.expires_at /= UNSET /\ order.expires_at < t

\* getAllOrders: the merged, unexpired orders it returns ...
GetAllOrders(S) ==
  LET allOrders == Spread(MergeKeys(S.ls, 1, NoOrders), S.ss)
  IN [c \in {d \in DOMAIN allOrders : ~Expired(allOrders[d], now)} |-> allOrders[c]]

\* ... and the storage it leaves behind.
GetAllOrdersStore(S) ==
  LET allOrders == GetAllOrders(S)
  IN IF Cardinality(DOMAIN allOrders) > 0
     THEN [S EXCEPT !.ls = WriteAllKeys(S.ls, allOrders)]
     ELSE S

SaveOrderStore(S, orderData) ==
  LET orderWithOTP == Spread(orderData,
                             [otp_status |-> "active", expires_at |-> now + TTL])
      orders == Spread(GetAllOrders(S), (orderData.order_code :> orderWithOTP))
  IN [ls |-> WriteAllKeys(S.ls, orders), ss |-> orders]

UpdateOrderRet(S, orderCode) == orderCode \in DOMAIN GetAllOrders(S)

UpdateOrderStore(S, orderCode, updates) ==
  LET S1 == GetAllOrdersStore(S)
      orders0 == GetAllOrders(S)
      orders == [orders0 EXCEPT ![orderCode] = Spread(orders0[orderCode], updates)]
  IN IF orderCode \in DOMAIN orders0
     THEN [ls |-> WriteAllKeys(S1.ls, orders), ss |-> orders]
     ELSE S1

\* getOrderByCode returns null (here: no order) for a missing, used or expired order.
GetOrderByCodeFound(S, orderCode) ==
  LET orders == GetAllOrders(S)
  IN /\ orderCode \in DOMAIN orders
     /\ orders[orderCode].otp_status /= "used"
     /\ ~Expired(orders[orderCode], now)

GetOrderByCode(S, orderCode) == GetAllOrders(S)[orderCode]

GetOrderByCodeStore(S, orderCode) == GetAllOrdersStore(S)

MarkOrderAsUsedRet(S, orderCode) ==
  LET orders == GetAllOrders(S)
  IN orderCode \in DOMAIN orders /\ orders[orderCode].otp_status = "active"

MarkOrderAsUsedStore(S, orderCode) ==
  LET S1 == GetAllOrdersStore(S)
      orders0 == GetAllOrders(S)
      orders == [orders0 EXCEPT ![orderCode] =
                   Spread(@, [otp_status |-> "used", used_at |-> now])]
  IN IF MarkOrderAsUsedRet(S, orderCode)
     THEN [S1 EXCEPT !.ls = [S1.ls EXCEPT ![storageKey] = orders,
                                          !["kgbites_shared_orders"] = orders]]
     ELSE S1

\* The order object markCounterDelivered builds before it calls updateOrder.
DeliveredOrder(order, counterName, deliveredItems) ==
  LET items == IF counterName \in DOMAIN order.items_by_counter
               THEN [order.items_by_counter EXCEPT ![counterName] =
                       [id \in DOMAIN @ |-> IF id \in deliveredItems THEN TRUE ELSE @[id]]]
               ELSE order.items_by_counter
      completed == IF Includes(order.counters_completed, counterName)
                   THEN order.counters_completed
                   ELSE Append(order.counters_completed, counterName)
  IN [order EXCEPT !.items_by_counter = items,
                   !.counters_completed = completed,
                   !.is_complete = \A counter \in DOMAIN items : Includes(completed, counter)]

MarkCounterDeliveredRet(S, orderCode) ==
  /\ GetOrderByCodeFound(S, orderCode)
  /\ UpdateOrderRet(GetOrderByCodeStore(S, orderCode), orderCode)

MarkCounterDeliveredStore(S, orderCode, counterName, deliveredItems) ==
  LET S1 == GetOrderByCodeStore(S, orderCode)
  IN IF GetOrderByCodeFound(S, orderCode)
     THEN UpdateOrderStore(S1, orderCode,
            DeliveredOrder(GetOrderByCode(S, orderCode), counterName, deliveredItems))
     ELSE S1

\* syncOrderStatusFromServer, given the answer statusRes of fetchOtpStatus
SyncUpdates(S, orderCode, statusRes) ==
  LET currentAll == GetAllOrders(S)
      countersInvolved == IF orderCode \in DOMAIN currentAll
                          THEN currentAll[orderCode].counters_involved
                          ELSE <<>>
  IN CASE statusRes.status = "used" ->
            [otp_status |-> "used", is_complete |-> TRUE,
             counters_completed |-> countersInvolved,
             used_at |-> IF statusRes.used_at /= UNSET THEN statusRes.used_at ELSE now]
       [] statusRes.status = "expired" -> [otp_status |-> "expired"]
       [] statusRes.status = "active" -> [otp_status |-> "active"]

SyncOrderStatusFromServerStore(S, orderCode, statusRes) ==
  LET S1 == GetAllOrdersStore(S)
      S2 == IF statusRes.status \in {"used", "expired", "active"}
            THEN UpdateOrderStore(S1, orderCode, SyncUpdates(S, orderCode, statusRes))
            ELSE S1
  IN GetAllOrdersStore(S2)

\* ---------------------------------------------------- the server's OTP record
NoOtp == [status |-> "not_found", used_at |-> UNSET, expires_at |-> UNSET, payload |-> <<>>]

\* what the status endpoint answers: the record's status, or a failed request
FetchOtpStatus(orderCode) ==
  {[status |-> srv[orderCode].status, used_at |-> srv[orderCode].used_at],
   [status |-> "error", used_at |-> UNSET]}

\* orderService.fetchOrderByCodeFromServer: the lookup is refused (404, 409,
\* 410) unless the record is active
FetchOrderByCodeFromServerFails(orderCode) == srv[orderCode].status /= "active"

\* orderService.consumeOrderCode: consumes an active record, fails otherwise
ConsumeOrderCodeOk(orderCode) == srv[orderCode].status = "active"

ConsumedSrv(orderCode) ==
  [srv EXCEPT ![orderCode].status = "used", ![orderCode].used_at = now]

\* --------------------------------------------------------------- actions
Commit(t, S) ==
  /\ localStorage' = S.ls
  /\ sessionStorage' = [sessionStorage EXCEPT ![t] = S.ss]

Init ==
  /\ now = 0
  /\ localStorage = [k \in {allKeys[i] : i \in 1..Len(allKeys)} |-> NoOrders]
  /\ sessionStorage = [t \in Tabs |-> NoOrders]
  /\ srv = [c \in Codes |-> NoOtp]
  /\ ret = [op |-> "init", code |-> "", result |-> FALSE]
  /\ pending = [t \in Tabs |-> <<>>]
  /\ acked = {}
  /\ currentOrder = [s \in Staff |-> <<>>]
  /\ selectedCounter = [s \in Staff |-> "Veg & Meals"]
  /\ checkedItems = [s \in Staff |-> {}]
  /\ handedOver = [c \in Codes |-> {}]
  /\ attempts = 0
  /\ code = ""
  /\ generated = FALSE
  /\ pageOrders = NoOrders
  /\ mounted = FALSE
  /\ intervalId = FALSE
  /\ inflight = {}
  /\ requested = FALSE
  /\ startedBy = "none"
  /\ cartItems = NoItems
  /\ cart = initialState
  /\ ledger = stock
  /\ confirmRet = "none"
  /\ deliverRequest = [s \in Staff |-> <<>>]

Tick ==
  /\ now + TickStep <= MaxTime
  /\ now' = now + TickStep
  /\ UNCHANGED <<localStorage, sessionStorage, srv, ret, tabVars, deliverVars, cartVars, staffVars, genVars, pollVars>>

\* createTestOrder: saveOrder of the fixed test order, no server record
CreateTestOrder(t) ==
  /\ Commit(t, SaveOrderStore(Store(t), testOrder))
  /\ UNCHANGED <<now, srv, ret, tabVars, deliverVars, cartVars, staffVars, genVars, pollVars>>

\* handleConfirmOrder: the server issues the code, then the local copy is saved
HandleConfirmOrder(t) ==
  /\ srv[newOrder.order_code].status = "not_found"
  /\ srv' = [srv EXCEPT ![newOrder.order_code] =
               [status |-> "active", used_at |-> UNSET, expires_at |-> now + TTL,
                payload |-> newOrder]]
  /\ Commit(t, SaveOrderStore(Store(t), newOrder))
  /\ UNCHANGED <<now, ret, tabVars, deliverVars, cartVars, staffVars, genVars, pollVars>>

LoadOrders(t) ==
  /\ Commit(t, GetAllOrdersStore(Store(t)))
  /\ UNCHANGED <<now, srv, ret, tabVars, deliverVars, cartVars, staffVars, genVars, pollVars>>

LookupOrder(t, c) ==
  /\ Commit(t, GetOrderByCodeStore(Store(t), c))
  /\ UNCHANGED <<now, srv, ret, tabVars, deliverVars, cartVars, staffVars, genVars, pollVars>>

MarkOrderAsUsed(t, c) ==
  /\ Commit(t, MarkOrderAsUsedStore(Store(t), c))
  /\ ret' = [op |-> "markOrderAsUsed", code |-> c,
             result |-> MarkOrderAsUsedRet(Store(t), c)]
  /\ UNCHANGED <<now, srv, tabVars, deliverVars, cartVars, staffVars, genVars, pollVars>>

MarkCounterDelivered(t, c, k, ids) ==
  /\ Commit(t, MarkCounterDeliveredStore(Store(t), c, k, ids))
  /\ ret' = [op |-> "markCounterDelivered", code |-> c,
             result |-> MarkCounterDeliveredRet(Store(t), c)]
  /\ UNCHANGED <<now, srv, tabVars, deliverVars, cartVars, staffVars, genVars, pollVars>>

SyncOrderStatusFromServer(t, c, statusRes) ==
  /\ Commit(t, SyncOrderStatusFromServerStore(Store(t), c, statusRes))
  /\ UNCHANGED <<now, srv, ret, tabVars, deliverVars, cartVars, staffVars, genVars, pollVars>>

\* the server consumes the code (staff portal, final counter)
ServerConsume(c) ==
  /\ ConsumeOrderCodeOk(c)
  /\ srv' = ConsumedSrv(c)
  /\ UNCHANGED <<now, localStorage, sessionStorage, ret, tabVars, deliverVars, cartVars, staffVars, genVars, pollVars>>

\* the server's record passes its validity window
ServerExpire(c) ==
  /\ srv[c].status = "active"
  /\ srv[c].expires_at <= now
  /\ srv' = [srv EXCEPT ![c].status = "expired"]
  /\ UNCHANGED <<now, localStorage, sessionStorage, ret, tabVars, deliverVars, cartVars, staffVars, genVars, pollVars>>

Next ==
  \/ Tick
  \/ CreateTestOrder("tab1")
  \/ HandleConfirmOrder("tab1")
  \/ LoadOrders("tab1")
  \/ \E c \in Codes : LookupOrder("tab1", c)
  \/ \E c \in Codes : MarkOrderAsUsed("tab1", c)
  \/ \E c \in Codes, k \in Counters, ids \in DeliveredItemLists :
       MarkCounterDelivered("tab1", c, k, ids)
  \/ \E c \in Codes : \E statusRes \in FetchOtpStatus(c) :
       SyncOrderStatusFromServer("tab1", c, statusRes)
  \/ \E c \in Codes : ServerConsume(c)
  \/ \E c \in Codes : ServerExpire(c)

Spec == Init /\ [][Next]_vars

\* ------------------------------------------------ two tabs, interleaved
Idle(t) == pending[t] = <<>>

\* markCounterDelivered up to its call of updateOrder: getOrderByCode, then
\* the order object with the counter's items and completion filled in
BeginDelivery(t, c, k, ids) ==
  /\ Idle(t)
  /\ Commit(t, GetOrderByCodeStore(Store(t), c))
  /\ IF GetOrderByCodeFound(Store(t), c)
     THEN /\ pending' = [pending EXCEPT ![t] =
                           <<c, k, DeliveredOrder(GetOrderByCode(Store(t), c), k, ids)>>]
          /\ ret' = ret
     ELSE /\ pending' = pending
          /\ ret' = [op |-> "markCounterDelivered", code |-> c, result |-> FALSE]
  /\ UNCHANGED <<now, srv, acked, deliverVars, cartVars, staffVars, genVars, pollVars>>

\* ... and its updateOrder(orderCode, order), whose result it returns
FinishDelivery(t) ==
  /\ ~Idle(t)
  /\ Commit(t, UpdateOrderStore(Store(t), pending[t][1], pending[t][3]))
  /\ ret' = [op |-> "markCounterDelivered", code |-> pending[t][1],
             result |-> UpdateOrderRet(Store(t), pending[t][1])]
  /\ acked' = IF UpdateOrderRet(Store(t), pending[t][1])
              THEN acked \cup {pending[t][2]}
              ELSE acked
  /\ pending' = [pending EXCEPT ![t] = <<>>]
  /\ UNCHANGED <<now, srv, deliverVars, cartVars, staffVars, genVars, pollVars>>

\* the test order is created once, by either tab
TabCreateTestOrder(t) ==
  /\ Idle(t)
  /\ \A q \in Tabs : ~(testOrder.order_code \in DOMAIN GetAllOrders(Store(q)))
  /\ CreateTestOrder(t)

TabLookupOrder(t) ==
  /\ Idle(t)
  /\ LookupOrder(t, testOrder.order_code)

\* a station's delivery: its counter and all the item ids of its group
StationDeliveries ==
  {<<k, DOMAIN testOrder.items_by_counter[k]>> : k \in DOMAIN testOrder.items_by_counter}

NextTabs ==
  \/ Tick /\ \A t \in Tabs : Idle(t)
  \/ \E t \in Tabs : TabCreateTestOrder(t)
  \/ \E t \in Tabs : TabLookupOrder(t)
  \/ \E t \in Tabs, d \in StationDeliveries :
       BeginDelivery(t, testOrder.order_code, d[1], d[2])
  \/ \E t \in Tabs : FinishDelivery(t)

SpecTabs == Init /\ [][NextTabs]_vars

\* ------------------------- two tabs of one origin, every call runs to completion
NextShared ==
  \/ Tick
  \/ \E t \in Tabs : TabCreateTestOrder(t)
  \/ \E t \in Tabs : TabLookupOrder(t)
  \/ \E t \in Tabs, k \in Counters, ids \in DeliveredItemLists :
       MarkCounterDelivered(t, testOrder.order_code, k, ids)

SpecShared == Init /\ [][NextShared]_vars

\* ------------------------------- generateOrderCode / createOrderFromCart
maxAttempts == 100

\* the letters and digits the random draws are taken from
letters == {"O", "R"}
numbers == {"0"}

RandomCodes ==
  {l1 \o l2 \o n1 \o n2 \o n3 \o n4 :
     l1 \in letters, l2 \in letters,
     n1 \in numbers, n2 \in numbers, n3 \in numbers, n4 \in numbers}

\* the last four digits of Date.now(), in milliseconds
MsTails == {0, 24}

DigitChar(d) == <<"0", "1", "2", "3", "4", "5", "6", "7", "8", "9">>[d + 1]

\* a slice that keeps the last three digits only
Slice3(ms) ==
  DigitChar((ms \div 100) % 10) \o DigitChar((ms \div 10) % 10) \o DigitChar(ms % 10)

\* Date.now().toString().slice(-4) of a clock whose last four digits are ms
Slice4(ms) ==
  DigitChar((ms \div 1000) % 10) \o DigitChar((ms \div 100) % 10)
    \o DigitChar((ms \div 10) % 10) \o DigitChar(ms % 10)

FallbackCode(ms) == "OR" \o Slice4(ms)

\* the order createOrderFromCart builds for a cart with one item of one counter
cartOrder(orderCode) ==
  [order_code |-> orderCode,
   items_by_counter |-> ("Veg & Meals" :> (1 :> FALSE)),
   counters_involved |-> <<"Veg & Meals">>,
   counters_completed |-> <<>>,
   is_complete |-> FALSE,
   used_at |-> UNSET]

\* a loop pass without the safety check on attempts
DrawUnchecked(t, drawn, ms) ==
  /\ ~generated
  /\ attempts' = attempts + 1
  /\ code' = drawn
  /\ generated' = ~GetOrderByCodeFound(Store(t), drawn)
  /\ Commit(t, GetOrderByCodeStore(Store(t), drawn))
  /\ UNCHANGED <<now, srv, ret, tabVars, deliverVars, cartVars, staffVars, pollVars>>

\* one pass of generateOrderCode's do-while loop: a draw, the attempts check,
\* and the loop condition getOrderByCode(code)
Draw(t, drawn, ms) ==
  /\ ~generated
  /\ attempts' = attempts + 1
  /\ IF attempts + 1 >= maxAttempts
     THEN /\ code' = FallbackCode(ms)
          /\ generated' = TRUE
          /\ UNCHANGED <<localStorage, sessionStorage>>
     ELSE /\ code' = drawn
          /\ generated' = ~GetOrderByCodeFound(Store(t), drawn)
          /\ Commit(t, GetOrderByCodeStore(Store(t), drawn))
  /\ UNCHANGED <<now, srv, ret, tabVars, deliverVars, cartVars, staffVars, pollVars>>

\* createOrderFromCart, from the return of generateOrderCode on: saveOrder
CreateOrderFromCart(t) ==
  /\ generated
  /\ Commit(t, SaveOrderStore(Store(t), cartOrder(code)))
  /\ attempts' = 0
  /\ generated' = FALSE
  /\ UNCHANGED <<now, srv, ret, code, tabVars, deliverVars, cartVars, staffVars, pollVars>>

NextGen ==
  \/ Tick
  \/ \E drawn \in RandomCodes, ms \in MsTails : Draw("tab1", drawn, ms)
  \/ CreateOrderFromCart("tab1")

SpecGen == Init /\ [][NextGen]_vars

\* ------------------------------------ student portal: OrdersPage.jsx polling
\* syncAll's toSync: the codes of the orders it asks the server about
ToSync(os) == {c \in DOMAIN os : ~os[c].is_complete /\ os[c].otp_status /= "used"}

\* the status endpoint's answer to a request made now
StatusAnswer(c) == [status |-> srv[c].status, used_at |-> srv[c].used_at]

\* the requests of one syncAll round, answered by the server, responses under way
Requests(os) == {[code |-> c, res |-> StatusAnswer(c), cancelled |-> FALSE] : c \in ToSync(os)}

\* the effect's cleanup: cancelled = true for the rounds under way
Cancel(msgs) == {[m EXCEPT !.cancelled = TRUE] : m \in msgs}

\* the polling effect, run for the orders os: initial syncAll, then setInterval
RunEffect(os, msgs) ==
  IF DOMAIN os = {}
  THEN /\ intervalId' = FALSE
       /\ inflight' = msgs
       /\ requested' = requested
  ELSE /\ intervalId' = TRUE
       /\ inflight' = msgs \cup Requests(os)
       /\ requested' = IF ToSync(os) = {} THEN requested ELSE ~requested

\* the page is mounted: loadOrders, then the polling effect for the loaded orders
MountOrdersPage(t) ==
  /\ ~mounted
  /\ mounted' = TRUE
  /\ Commit(t, GetAllOrdersStore(Store(t)))
  /\ pageOrders' = GetAllOrders(Store(t))
  /\ RunEffect(GetAllOrders(Store(t)), inflight)
  /\ startedBy' = IF ToSync(GetAllOrders(Store(t))) = {} THEN startedBy ELSE "load"
  /\ UNCHANGED <<now, srv, ret, tabVars, deliverVars, cartVars, staffVars, genVars>>

\* a tick of the 8-second interval: syncAll
IntervalTick ==
  /\ mounted
  /\ intervalId
  /\ IF ToSync(pageOrders) = {}
     THEN /\ intervalId' = FALSE
          /\ UNCHANGED <<inflight, requested, startedBy>>
     ELSE /\ inflight' = inflight \cup Requests(pageOrders)
          /\ requested' = ~requested
          /\ startedBy' = "interval"
          /\ UNCHANGED intervalId
  /\ UNCHANGED <<serviceVars, tabVars, deliverVars, cartVars, staffVars, genVars, pageOrders, mounted>>

\* a status response arrives: the rest of syncOrderStatusFromServer, then the
\* round's setOrders(merged) unless its effect was cleaned up, and with it the
\* effect's cleanup and next run
DeliverResponse(t, m) ==
  /\ m \in inflight
  /\ LET S == SyncOrderStatusFromServerStore(Store(t), m.code, m.res)
         all == GetAllOrders(S)
         merged == IF m.code \in DOMAIN all
                   THEN [pageOrders EXCEPT ![m.code] = all[m.code]]
                   ELSE pageOrders
     IN /\ Commit(t, S)
        /\ IF m.cancelled
           THEN /\ inflight' = inflight \ {m}
                /\ UNCHANGED <<pageOrders, intervalId, requested, startedBy>>
           ELSE /\ pageOrders' = merged
                /\ RunEffect(merged, Cancel(inflight \ {m}))
                /\ startedBy' = IF ToSync(merged) = {} THEN startedBy ELSE "effect"
  /\ UNCHANGED <<now, srv, ret, tabVars, deliverVars, cartVars, staffVars, genVars, mounted>>

NextPoll ==
  \/ Tick
  \/ HandleConfirmOrder("tab1")
  \/ MountOrdersPage("tab1")
  \/ IntervalTick
  \/ \E m \in inflight : DeliverResponse("tab1", m)
  \/ \E c \in Codes : ServerConsume(c)
  \/ \E c \in Codes : ServerExpire(c)

SpecPoll == Init /\ [][NextPoll]_vars

\* The clock advances, the page is opened, the interval keeps ticking and
\* responses keep arriving: weak fairness of these steps.  For the delivery of responses the
\* condition is WF_vars(\E m \in inflight : DeliverResponse("tab1", m)) written
\* out: a delivery is enabled exactly when inflight is non-empty, and every
\* delivery changes inflight or requested.
PollFairness ==
  /\ WF_vars(Tick)
  /\ WF_vars(MountOrdersPage("tab1"))
  /\ WF_vars(IntervalTick)
  /\ \/ []<>(inflight = {})
     \/ []<><<\E m \in inflight : DeliverResponse("tab1", m)>>_vars

SpecPollFair == SpecPoll /\ PollFairness

\* isValidOrderCode: /^[A-Z]{2}[0-9]{4}$/
UpperLetters ==
  {"A", "B", "C", "D", "E", "F", "G", "H", "I", "J", "K", "L", "M",
   "N", "O", "P", "Q", "R", "S", "T", "U", "V", "W", "X", "Y", "Z"}

Digits == {"0", "1", "2", "3", "4", "5", "6", "7", "8", "9"}

isValidOrderCode(c) ==
  /\ Len(c) = 6
  /\ \A i \in 1..2 : SubSeq(c, i, i) \in UpperLetters
  /\ \A i \in 3..6 : SubSeq(c, i, i) \in Digits

\* ------------------------------------- staff portal: CounterInterface.jsx
\* an issued order of two counters whose payload is keyed by counter names,
\* the keys fetchOrder and the counter selector work with
cartPayload ==
  [order_code |-> "AB1234",
   items_by_counter |-> ("Veg & Meals" :> (1 :> FALSE)) @@ ("Snacks" :> ((2 :> FALSE) @@ (3 :> FALSE))),
   counters_involved |-> <<"Veg & Meals", "Snacks">>,
   counters_completed |-> <<>>,
   is_complete |-> FALSE,
   used_at |-> UNSET]

CreateOtpOnServer(c) ==
  /\ c = cartPayload.order_code
  /\ srv[c].status = "not_found"
  /\ srv' = [srv EXCEPT ![c] =
               [status |-> "active", used_at |-> UNSET, expires_at |-> now + TTL,
                payload |-> cartPayload]]
  /\ UNCHANGED <<now, localStorage, sessionStorage, ret, tabVars, deliverVars, cartVars, staffVars, genVars, pollVars>>

\* Object.keys(items_by_counter), in the order of the payload's counters
FirstCounter(order) == order.counters_involved[1]

\* fetchOrder: the order as the server's lookup returns it, or no order
FetchOrder(s, c) ==
  /\ IF FetchOrderByCodeFromServerFails(c)
     THEN /\ currentOrder' = [currentOrder EXCEPT ![s] = <<>>]
          /\ UNCHANGED <<selectedCounter, checkedItems>>
     ELSE LET payload == srv[c].payload
              mapped == [order_code |-> c,
                         otp_status |-> srv[c].status,
                         expires_at |-> srv[c].expires_at,
                         items_by_counter |-> payload.items_by_counter,
                         counters_involved |-> payload.counters_involved,
                         counters_completed |-> payload.counters_completed,
                         is_complete |-> payload.is_complete,
                         used_at |-> UNSET]
              effectiveCounter == IF selectedCounter[s] \in DOMAIN mapped.items_by_counter
                                  THEN selectedCounter[s]
                                  ELSE FirstCounter(mapped)
          IN IF mapped.is_complete
             THEN UNCHANGED <<currentOrder, selectedCounter, checkedItems>>
             ELSE /\ selectedCounter' = [selectedCounter EXCEPT ![s] = effectiveCounter]
                  /\ currentOrder' = [currentOrder EXCEPT ![s] = mapped]
                  /\ checkedItems' = [checkedItems EXCEPT ![s] = {}]
  /\ UNCHANGED <<serviceVars, tabVars, deliverVars, cartVars, genVars, pollVars, handedOver>>

\* the items the selected counter's panel shows
CounterItems(s) ==
  IF currentOrder[s] /= <<>> /\ selectedCounter[s] \in DOMAIN currentOrder[s].items_by_counter
  THEN currentOrder[s].items_by_counter[selectedCounter[s]]
  ELSE <<>>

UndeliveredItems(s) == {id \in DOMAIN CounterItems(s) : ~CounterItems(s)[id]}

\* the checkbox of an undelivered item of the selected counter
ToggleItemCheck(s, itemId) ==
  /\ itemId \in UndeliveredItems(s)
  /\ checkedItems' = [checkedItems EXCEPT ![s] =
                        IF itemId \in @ THEN @ \ {itemId} ELSE @ \cup {itemId}]
  /\ UNCHANGED <<serviceVars, tabVars, deliverVars, cartVars, genVars, pollVars, currentOrder, selectedCounter, handedOver>>

SelectCounter(s, counter) ==
  /\ selectedCounter[s] /= counter
  /\ selectedCounter' = [selectedCounter EXCEPT ![s] = counter]
  /\ UNCHANGED <<serviceVars, tabVars, deliverVars, cartVars, genVars, pollVars, currentOrder, checkedItems, handedOver>>

\* markAsDelivered: the order is updated in memory only; the server is called
\* (consumeOrderCode) when this client's copy shows every counter completed
MarkAsDelivered(s) ==
  /\ currentOrder[s] /= <<>>
  /\ UndeliveredItems(s) /= {}
  /\ UndeliveredItems(s) \subseteq checkedItems[s]
  /\ LET c == currentOrder[s].order_code
         updated == DeliveredOrder(currentOrder[s], selectedCounter[s], checkedItems[s])
         consumed == updated.is_complete /\ ConsumeOrderCodeOk(c)
     IN /\ srv' = IF consumed THEN ConsumedSrv(c) ELSE srv
        /\ currentOrder' = [currentOrder EXCEPT ![s] =
                              IF consumed
                              THEN [updated EXCEPT !.otp_status = "used", !.used_at = now]
                              ELSE updated]
        /\ handedOver' = [handedOver EXCEPT ![c] = @ \cup {selectedCounter[s]}]
  /\ checkedItems' = [checkedItems EXCEPT ![s] = {}]
  /\ UNCHANGED <<now, localStorage, sessionStorage, ret, tabVars, deliverVars, cartVars, selectedCounter, genVars, pollVars>>

NextStaff ==
  \/ \E c \in Codes : CreateOtpOnServer(c)
  \/ \E s \in Staff, c \in Codes : FetchOrder(s, c)
  \/ \E s \in Staff, itemId \in ItemIds : ToggleItemCheck(s, itemId)
  \/ \E s \in Staff, i \in 1..Len(availableCounters) : SelectCounter(s, availableCounters[i])
  \/ \E s \in Staff : MarkAsDelivered(s)
  \/ Tick
  \/ \E c \in Codes : ServerExpire(c)

SpecStaff == Init /\ [][NextStaff]_vars

\* ------------- staff portal: CounterInterface with the deliver endpoint
\* counter_names of the issued order's payload: counter id -> counter name
counter_names == (1 :> "Veg & Meals") @@ (3 :> "Snacks")

\* the hardcoded mapping for orders without counter_names
counterNameToId == ("Veg & Meals" :> 1) @@ ("Biriyani & Chinese" :> 2) @@ ("Snacks" :> 3)

\* the counter id markAsDelivered resolves for the selected counter
CounterIdOf(counter) ==
  IF \E id \in DOMAIN counter_names : counter_names[id] = counter
  THEN CHOOSE id \in DOMAIN counter_names : counter_names[id] = counter
  ELSE counterNameToId[counter]

\* the deliver endpoint accepts a delivery for an active code from a counter
\* of the order that has not delivered yet
DeliverAccepted(c, counterId) ==
  /\ srv[c].status = "active"
  /\ counterId \in DOMAIN counter_names
  /\ counter_names[counterId] \notin handedOver[c]

\* markAsDelivered of the component that posts to the deliver endpoint: the
\* request carries the resolved counter id and Array.from(checkedItems)
MarkAsDeliveredByCounter(s) ==
  /\ currentOrder[s] /= <<>>
  /\ UndeliveredItems(s) /= {}
  /\ UndeliveredItems(s) \subseteq checkedItems[s]
  /\ LET c == currentOrder[s].order_code
         counterId == CounterIdOf(selectedCounter[s])
         deliveredItemIds == checkedItems[s]
         delivered == handedOver[c] \cup {selectedCounter[s]}
         all_items_delivered == Range(srv[c].payload.counters_involved) \subseteq delivered
         updated == [DeliveredOrder(currentOrder[s], selectedCounter[s], deliveredItemIds)
                       EXCEPT !.is_complete = all_items_delivered,
                              !.otp_status = IF all_items_delivered THEN "used" ELSE @]
     IN /\ deliverRequest' = [deliverRequest EXCEPT ![s] =
                                [code |-> c, counter_id |-> counterId,
                                 item_ids |-> deliveredItemIds]]
        /\ IF DeliverAccepted(c, counterId)
           THEN /\ handedOver' = [handedOver EXCEPT ![c] = delivered]
                /\ srv' = IF all_items_delivered THEN ConsumedSrv(c) ELSE srv
                /\ currentOrder' = [currentOrder EXCEPT ![s] = updated]
                /\ checkedItems' = [checkedItems EXCEPT ![s] = {}]
           ELSE UNCHANGED <<handedOver, srv, currentOrder, checkedItems>>
  /\ UNCHANGED <<now, localStorage, sessionStorage, ret, tabVars, cartVars, selectedCounter, genVars, pollVars>>

NextDeliver ==
  \/ \E c \in Codes : CreateOtpOnServer(c)
  \/ \E s \in Staff, c \in Codes : FetchOrder(s, c)
  \/ \E s \in Staff, itemId \in ItemIds : ToggleItemCheck(s, itemId)
  \/ \E s \in Staff, i \in 1..Len(availableCounters) : SelectCounter(s, availableCounters[i])
  \/ \E s \in Staff : MarkAsDeliveredByCounter(s)

SpecDeliver == Init /\ [][NextDeliver]_vars

\* ------------------- student portal: the cart and the order confirmation
MenuItems == DOMAIN stock

\* the counter each food item is sold at (counter_id, as a key of the payload)
counter_id == (1 :> "1") @@ (2 :> "1") @@ (3 :> "2")

\* the +/- buttons call updateQuantity(item.id, -1) and updateQuantity(item.id, 1)
Changes == {-1, 1}

\* addToCart: refused for an item without stock and for a quantity at the stock
AddToCart(item) ==
  /\ stock[item] > 0
  /\ IF item \in DOMAIN cartItems
     THEN /\ cartItems[item] < stock[item]
          /\ cartItems' = [cartItems EXCEPT ![item] = @ + 1]
     ELSE cartItems' = cartItems @@ (item :> 1)
  /\ UNCHANGED <<serviceVars, tabVars, deliverVars, staffVars, genVars, pollVars, cart, ledger, confirmRet>>

\* updateQuantity: map over the cart, then filter(item => item.quantity > 0)
UpdateQuantity(id, change) ==
  /\ id \in DOMAIN cartItems
  /\ LET newQuantity == cartItems[id] + change
         mapped == [cartItems EXCEPT ![id] =
                      IF newQuantity < 0 THEN @
                      ELSE IF change > 0 /\ newQuantity > stock[id] THEN @
                      ELSE newQuantity]
     IN cartItems' = [i \in {j \in DOMAIN mapped : mapped[j] > 0} |-> mapped[i]]
  /\ UNCHANGED <<serviceVars, tabVars, deliverVars, staffVars, genVars, pollVars, cart, ledger, confirmRet>>

\* CartContext (the floating cart): state.items as item id -> quantity

\* a stock check that lets one more through
StockLimitReachedLate(quantity, s) == quantity > s

\* ADD_ITEM's check on an item already in the cart: existingItem.quantity >= payload.stock
StockLimitReached(quantity, s) == quantity >= s

RECURSIVE SumQuantities(_)
\* the sum of the quantities of the items of a cart
SumQuantities(items) ==
  IF DOMAIN items = {} THEN 0
  ELSE LET i == CHOOSE j \in DOMAIN items : TRUE
       IN items[i] + SumQuantities([k \in DOMAIN items \ {i} |-> items[k]])

\* cartReducer; a payload is the id of the item, its stock is stock[id]
cartReducer(state, action) ==
  CASE action.type = "ADD_ITEM" ->
         IF action.payload \in DOMAIN state.items
         THEN IF StockLimitReached(state.items[action.payload], stock[action.payload])
              THEN state
              ELSE [items |-> [state.items EXCEPT ![action.payload] = @ + 1],
                    totalItems |-> state.totalItems + 1]
         ELSE IF stock[action.payload] <= 0
              THEN state
              ELSE [items |-> state.items @@ (action.payload :> 1),
                    totalItems |-> state.totalItems + 1]
    [] action.type = "REMOVE_ITEM" ->
         IF action.payload \notin DOMAIN state.items
         THEN state
         ELSE IF state.items[action.payload] = 1
              THEN [items |-> [i \in DOMAIN state.items \ {action.payload} |-> state.items[i]],
                    totalItems |-> state.totalItems - 1]
              ELSE [items |-> [state.items EXCEPT ![action.payload] = @ - 1],
                    totalItems |-> state.totalItems - 1]
    [] action.type = "CLEAR_CART" -> [items |-> NoItems, totalItems |-> 0]
    [] OTHER -> state

\* the menu's handleAddToCart: addItem(item) for any item of the menu, which
\* dispatches ADD_ITEM
HandleAddToCart(item) ==
  /\ cart' = cartReducer(cart, [type |-> "ADD_ITEM", payload |-> item])
  /\ UNCHANGED <<serviceVars, tabVars, deliverVars, staffVars, genVars, pollVars, cartItems, ledger, confirmRet>>

\* the floating cart's + button: handleAddItem returns at the stock limit,
\* otherwise addItem(item)
HandleAddItem(item) ==
  /\ item \in DOMAIN cart.items
  /\ cart.items[item] < stock[item]
  /\ cart' = cartReducer(cart, [type |-> "ADD_ITEM", payload |-> item])
  /\ UNCHANGED <<serviceVars, tabVars, deliverVars, staffVars, genVars, pollVars, cartItems, ledger, confirmRet>>

\* the floating cart's - button: removeItem(item), which dispatches REMOVE_ITEM
RemoveItem(item) ==
  /\ item \in DOMAIN cart.items
  /\ cart' = cartReducer(cart, [type |-> "REMOVE_ITEM", payload |-> item])
  /\ UNCHANGED <<serviceVars, tabVars, deliverVars, staffVars, genVars, pollVars, cartItems, ledger, confirmRet>>

\* the floating cart's clear button: clearCart(), which dispatches CLEAR_CART
ClearCart ==
  /\ cart' = cartReducer(cart, [type |-> "CLEAR_CART", payload |-> 0])
  /\ UNCHANGED <<serviceVars, tabVars, deliverVars, staffVars, genVars, pollVars, cartItems, ledger, confirmRet>>

\* a reserve that is content with one available item of the request
CanReserveSome(L, items) == \E i \in DOMAIN items : L[i] >= items[i]

\* StockLedger.reserve succeeds when every requested quantity is available ...
CanReserve(L, items) == \A i \in DOMAIN items : L[i] >= items[i]

\* ... and then decrements all of them as one unit.
Reserve(L, items) ==
  [i \in DOMAIN L |-> IF i \in DOMAIN items THEN L[i] - items[i] ELSE L[i]]

\* a release that gives back one unit of every item, whatever was reserved
ReleaseOneEach(L, items) ==
  [i \in DOMAIN L |-> IF i \in DOMAIN items THEN L[i] + 1 ELSE L[i]]

\* StockLedger.release restores the quantities of the items.
Release(L, items) ==
  [i \in DOMAIN L |-> IF i \in DOMAIN items THEN L[i] + items[i] ELSE L[i]]

\* another buyer's order takes one unit of an item
OtherBuyerReserves(i) ==
  /\ CanReserve(ledger, (i :> 1))
  /\ ledger' = Reserve(ledger, (i :> 1))
  /\ UNCHANGED <<serviceVars, tabVars, deliverVars, staffVars, genVars, pollVars, cartItems, cart, confirmRet>>

\* the counter ids in the order the payload lists them
CounterIds == <<"1", "2">>

IsInvolved(items, k) == \E i \in DOMAIN items : counter_id[i] = k

\* handleConfirmOrder's payload for a cart: the items grouped by counter id
PayloadOfCart(orderCode, items) ==
  [order_code |-> orderCode,
   items_by_counter |->
     [k \in {counter_id[i] : i \in DOMAIN items} |->
        [i \in {j \in DOMAIN items : counter_id[j] = k} |-> FALSE]],
   counters_involved |-> SelectSeq(CounterIds, LAMBDA k : IsInvolved(items, k)),
   counters_completed |-> <<>>,
   is_complete |-> FALSE,
   used_at |-> UNSET]

\* handleConfirmOrder for the cart: createOtpOnServer reserves the stock and
\* issues code c, or rejects; only after it succeeded the order is saved
\* locally and the cart is emptied.
HandleConfirmOrderOfCart(t, c) ==
  /\ DOMAIN cartItems /= {}
  /\ srv[c].status = "not_found"
  /\ IF CanReserve(ledger, cartItems)
     THEN /\ ledger' = Reserve(ledger, cartItems)
          /\ srv' = [srv EXCEPT ![c] =
                       [status |-> "active", used_at |-> UNSET, expires_at |-> now + TTL,
                        payload |-> PayloadOfCart(c, cartItems)]]
          /\ Commit(t, SaveOrderStore(Store(t), PayloadOfCart(c, cartItems)))
          /\ cartItems' = NoItems
          /\ confirmRet' = "confirmed"
     ELSE /\ confirmRet' = "rejected"
          /\ UNCHANGED <<ledger, srv, localStorage, sessionStorage, cartItems>>
  /\ UNCHANGED <<now, ret, tabVars, deliverVars, staffVars, genVars, pollVars, cart>>

NextCart ==
  \/ \E item \in MenuItems : AddToCart(item)
  \/ \E id \in MenuItems, change \in Changes : UpdateQuantity(id, change)
  \/ \E i \in MenuItems : OtherBuyerReserves(i)
  \/ \E c \in Codes : HandleConfirmOrderOfCart("tab1", c)
  \/ \E item \in MenuItems : HandleAddItem(item)
  \/ \E item \in MenuItems : RemoveItem(item)
  \/ \E item \in MenuItems : HandleAddToCart(item)
  \/ ClearCart

SpecCart == Init /\ [][NextCart]_vars

\* ------------------------------------------------- what the claims speak of
ThisTab == "tab1"

\* every stored copy of order c: one per localStorage key and sessionStorage backup
Copies(c) ==
  {localStorage[k][c] : k \in {q \in DOMAIN localStorage : c \in DOMAIN localStorage[q]}}
    \cup {sessionStorage[t][c] : t \in {q \in Tabs : c \in DOMAIN sessionStorage[q]}}

\* the orders a tab's getAllOrders assembles, before it drops the expired ones
View(t) == Spread(MergeKeys(localStorage, 1, NoOrders), sessionStorage[t])

Stored(t, c) == c \in DOMAIN View(t)

\* the code authorizes a delivery: getOrderByCode returns the order
Valid(t, c) == GetOrderByCodeFound(Store(t), c)

StationsInvolved(o) == DOMAIN o.items_by_counter

StationDelivered(o, k) == \A id \in DOMAIN o.items_by_counter[k] : o.items_by_counter[k][id]

\* the clock has passed the order's expires_at
PastExpiresAt(o) == o.expires_at /= UNSET /\ now > o.expires_at

\* some copy of the order has been consumed, marked expired, or is past expires_at
Terminal(c) ==
  \E o \in Copies(c) : o.otp_status \in {"used", "expired"} \/ PastExpiresAt(o)

NotActive(t, c) ==
  /\ Stored(t, c)
  /\ \/ View(t)[c].otp_status \in {"used", "expired"}
     \/ PastExpiresAt(View(t)[c])

PastExpiry(t, c) == Stored(t, c) /\ PastExpiresAt(View(t)[c])

\* a markCounterDelivered step of this tab for code c
DeliveryStep(c) ==
  /\ ret'.op = "markCounterDelivered"
  /\ ret'.code = c
  /\ \E k \in Counters, ids \in DeliveredItemLists : MarkCounterDelivered(ThisTab, c, k, ids)

\* no storage location gains a copy of c or holds a changed one
RecordUntouched(c) ==
  /\ \A k \in DOMAIN localStorage :
       c \in DOMAIN localStorage'[k] =>
         c \in DOMAIN localStorage[k] /\ localStorage'[k][c] = localStorage[k][c]
  /\ \A t \in Tabs :
       c \in DOMAIN sessionStorage'[t] =>
         c \in DOMAIN sessionStorage[t] /\ sessionStorage'[t][c] = sessionStorage[t][c]

\* C1: in every reachable state an order's status is used if and only if its
\* stations_completed equals its stations_involved.
C1_UsedIffAllStationsCompleted ==
  \A c \in Codes : \A o \in Copies(c) :
    (o.otp_status = "used") <=> (Range(o.counters_completed) = StationsInvolved(o))

\* C2: for every order, counters_completed is a subset of counters_involved,
\* the keys of items_by_counter.
C2_CompletedSubsetOfInvolved ==
  \A c \in Codes : \A o \in Copies(c) :
    /\ Range(o.counters_completed) \subseteq Range(o.counters_involved)
    /\ Range(o.counters_completed) \subseteq StationsInvolved(o)

\* C3: a code that has once been used or expired is never afterwards returned
\* by getOrderByCode as a valid order: no step leaves used or expired.
C3_NoResurrection ==
  [][\A c \in Codes : Terminal(c) => ~Valid(ThisTab, c)']_vars

\* C4: once an order's status is not active, every later markCounterDelivered
\* call for that code fails and leaves the item delivered flags and
\* counters_completed of the order as they were.
C4_NoDeliveryOnceNotActive ==
  [][\A c \in Codes :
       ((NotActive(ThisTab, c) \/ Terminal(c)) /\ DeliveryStep(c)) =>
         /\ ret'.result = FALSE
         /\ \A t \in Tabs : Stored(t, c)' =>
              /\ Stored(t, c)
              /\ View(t)[c].items_by_counter = View(t)'[c].items_by_counter
              /\ View(t)[c].counters_completed = View(t)'[c].counters_completed]_vars

\* C5: a delivery adds a station to stations_completed only when every item
\* of that station's group is delivered after the call.
C5_CompleteOnlyWhenAllItemsDelivered ==
  [][\A c \in Codes :
       (DeliveryStep(c) /\ Stored(ThisTab, c) /\ Stored(ThisTab, c)') =>
         \A k \in StationsInvolved(View(ThisTab)'[c]) :
           (k \in Range(View(ThisTab)'[c].counters_completed)
              /\ k \notin Range(View(ThisTab)[c].counters_completed))
             => StationDelivered(View(ThisTab)'[c], k)]_vars

C9_ExpiredReportedAndReadable ==
  \A c \in Codes :
    PastExpiry(ThisTab, c) => c \in DOMAIN GetAllOrders(Store(ThisTab))

\* C10: a delivery that names a station not in the order's stations_involved
\* fails and changes nothing in the record.
C10_ForbiddenStationRejected ==
  [][\A c \in Codes : \A k \in Counters, ids \in DeliveredItemLists :
       (/\ Stored(ThisTab, c)
        /\ k \notin StationsInvolved(View(ThisTab)[c])
        /\ ret'.op = "markCounterDelivered"
        /\ MarkCounterDelivered(ThisTab, c, k, ids)) =>
          /\ ret'.result = FALSE
          /\ Stored(ThisTab, c)' => View(ThisTab)'[c] = View(ThisTab)[c]]_vars

\* C6: deliveries for the same code from two stations, interleaved in any
\* way, lose no completion flag: once both calls have returned true, both
\* stations are in counters_completed and both groups' items are delivered
\* (in every tab's view of the order).
C6_NoLostCompletion ==
  (acked = StationsInvolved(testOrder) /\ \A t \in Tabs : Idle(t)) =>
    \A t \in Tabs :
      /\ Stored(t, testOrder.order_code)
      /\ StationsInvolved(testOrder) \subseteq Range(View(t)[testOrder.order_code].counters_completed)
      /\ \A k \in StationsInvolved(testOrder) :
           StationDelivered(View(t)[testOrder.order_code], k)

\* C7: for an active, unexpired order, once every station in stations_involved
\* has loaded the order by code and delivered all of its items, the order's
\* status is used (the code is consumed).
C7_AllStationsDeliveredConsumes ==
  \A c \in Codes :
    (/\ srv[c].status \in {"active", "used"}
     /\ handedOver[c] = StationsInvolved(srv[c].payload)) =>
       srv[c].status = "used"

\* C11: a markCounterDelivered(code, station, item_ids) call sets delivered
\* exactly for the items of station's group whose id is in item_ids: in every
\* stored copy of the order every other flag keeps its value, and no flag goes
\* from true back to false.
C11_DeliverySetsExactlyNamedItems ==
  [][\A c \in Codes : \A t \in Tabs, k \in Counters, ids \in DeliveredItemLists :
       (/\ ret'.op = "markCounterDelivered"
        /\ ret'.code = c
        /\ MarkCounterDelivered(t, c, k, ids)) =>
          \A key \in DOMAIN localStorage :
            (c \in DOMAIN localStorage[key] /\ c \in DOMAIN localStorage'[key]) =>
              \A g \in DOMAIN localStorage[key][c].items_by_counter :
                \A id \in DOMAIN localStorage[key][c].items_by_counter[g] :
                  localStorage'[key][c].items_by_counter[g][id] =
                    (\/ localStorage[key][c].items_by_counter[g][id]
                     \/ (ret'.result /\ g = k /\ id \in ids))]_vars

\* the storage of all tabs, and a markCounterDelivered call of tab t on it
World == [ls |-> localStorage, ss |-> sessionStorage]

DeliverIn(W, t, c, k, ids) ==
  LET S == MarkCounterDeliveredStore([ls |-> W.ls, ss |-> W.ss[t]], c, k, ids)
  IN [ls |-> S.ls, ss |-> [W.ss EXCEPT ![t] = S.ss]]

\* the record of order c that the store holds, stations_completed taken as a set
FinalRecord(W, c) ==
  IF c \in DOMAIN W.ls[storageKey]
  THEN LET o == W.ls[storageKey][c]
       IN <<o.items_by_counter, Range(o.counters_completed), o.is_complete, o.otp_status>>
  ELSE <<>>

\* C12: for an active order, one full delivery per involved station gives the
\* same final record in either order of the stations, whichever tabs the
\* stations deliver from.
C12_OrderIndependence ==
  \A c \in Codes : \A t1 \in Tabs, t2 \in Tabs :
    (Valid(t1, c) /\ Valid(t2, c)) =>
      LET o == View(t1)[c]
      IN \A k1 \in StationsInvolved(o), k2 \in StationsInvolved(o) :
           k1 /= k2 =>
             FinalRecord(DeliverIn(DeliverIn(World, t1, c, k1, DOMAIN o.items_by_counter[k1]),
                                   t2, c, k2, DOMAIN o.items_by_counter[k2]), c)
               = FinalRecord(DeliverIn(DeliverIn(World, t2, c, k2, DOMAIN o.items_by_counter[k2]),
                                       t1, c, k1, DOMAIN o.items_by_counter[k1]), c)

\* C13: a delivery repeated for a station that is already complete, with the
\* same fully delivered item set, leaves the record as it is (no duplicate in
\* counters_completed); it is refused if the order is complete and succeeds
\* as a no-op otherwise.
C13_RepeatedDeliveryIdempotent ==
  \A c \in Codes : \A k \in Counters :
    (/\ Valid(ThisTab, c)
     /\ k \in StationsInvolved(View(ThisTab)[c])
     /\ StationDelivered(View(ThisTab)[c], k)
     /\ Includes(View(ThisTab)[c].counters_completed, k)) =>
       LET o == View(ThisTab)[c]
           S == MarkCounterDeliveredStore(Store(ThisTab), c, k, DOMAIN o.items_by_counter[k])
       IN /\ Spread(MergeKeys(S.ls, 1, NoOrders), S.ss)[c] = o
          /\ MarkCounterDeliveredRet(Store(ThisTab), c) = ~o.is_complete

\* C14: generateOrderCode never returns a code that an active, unexpired
\* order of the store holds, on the random path or on the fallback path.
C14_GeneratedCodeNotActive ==
  generated => ~GetOrderByCodeFound(Store(ThisTab), code)

\* C15: used_at is written once: a used_at that a stored copy holds is never
\* changed afterwards, and markOrderAsUsed does not succeed again for a code
\* some copy of which already has used_at set.
C15_UsedAtWrittenOnce ==
  [][\A c \in Codes :
       /\ \A key \in DOMAIN localStorage :
            (/\ c \in DOMAIN localStorage[key]
             /\ localStorage[key][c].used_at /= UNSET
             /\ c \in DOMAIN localStorage'[key]) =>
               localStorage'[key][c].used_at = localStorage[key][c].used_at
       /\ (/\ \E o \in Copies(c) : o.used_at /= UNSET
           /\ ret'.op = "markOrderAsUsed"
           /\ ret'.code = c
           /\ MarkOrderAsUsed(ThisTab, c)) => ret'.result = FALSE]_vars

\* C16: the expires_at of a stored order stays what it was set to when the
\* order was created: no step moves it.
C16_ExpiresAtFixed ==
  [][\A c \in Codes : \A key \in DOMAIN localStorage :
       (c \in DOMAIN localStorage[key] /\ c \in DOMAIN localStorage'[key]) =>
         localStorage'[key][c].expires_at = localStorage[key][c].expires_at]_vars

\* a syncOrderStatusFromServer step of this tab for code c with answer status
SyncStep(c, status) ==
  /\ ret' = ret
  /\ srv' = srv
  /\ now' = now
  /\ \E statusRes \in FetchOtpStatus(c) \cup {[status |-> "not_found", used_at |-> UNSET]} :
       statusRes.status = status /\ SyncOrderStatusFromServer(ThisTab, c, statusRes)

\* every storage location that holds a copy of c keeps it as it is
RecordKept(c) ==
  /\ \A key \in DOMAIN localStorage :
       c \in DOMAIN localStorage[key] =>
         c \in DOMAIN localStorage'[key] /\ localStorage'[key][c] = localStorage[key][c]
  /\ \A t \in Tabs :
       c \in DOMAIN sessionStorage[t] =>
         c \in DOMAIN sessionStorage'[t] /\ sessionStorage'[t][c] = sessionStorage[t][c]

\* C17: when the status query answers not_found or error,
\* syncOrderStatusFromServer leaves the local copy of the order unchanged in
\* every storage location.
C17_SyncFailureKeepsLocalCopy ==
  [][\A c \in Codes : \A status \in {"not_found", "error"} :
       SyncStep(c, status) => RecordKept(c) /\ RecordUntouched(c)]_vars

\* the authoritative record of code c: the server's payload; once the code is
\* used every involved station is completed and every item delivered
AuthoritativeRecord(c) ==
  LET payload == srv[c].payload
  IN IF srv[c].status = "used"
     THEN [payload EXCEPT
             !.items_by_counter = [k \in DOMAIN @ |-> [id \in DOMAIN @[k] |-> TRUE]],
             !.counters_completed = payload.counters_involved,
             !.is_complete = TRUE]
     ELSE payload

\* C18: after syncOrderStatusFromServer has run with a server answer of
\* active, used or expired, the local copy's status, stations_completed and
\* item delivered flags are those of the authoritative record.
C18_SyncReplacesWholesale ==
  [][\A c \in Codes : \A status \in {"active", "used", "expired"} :
       (SyncStep(c, status) /\ Stored(ThisTab, c)') =>
         LET local == View(ThisTab)'[c]
             auth == AuthoritativeRecord(c)
         IN /\ local.otp_status = srv[c].status
            /\ Range(local.counters_completed) = Range(auth.counters_completed)
            /\ local.items_by_counter = auth.items_by_counter]_vars

\* the status of the stored local copy of c, as the tab's storage holds it
\* (before any expiry filter), "none" when the storage has no copy
LocalStatus(c) ==
  IF Stored(ThisTab, c) THEN View(ThisTab)[c].otp_status ELSE "none"

\* C19: once the authoritative status of a code the orders page tracks is
\* used or expired, and the page keeps polling and every response arrives, the
\* local copy's status (as long as the store holds a copy) eventually equals
\* the authoritative status and stays equal.
C19_EventuallyConsistent ==
  []((/\ mounted
      /\ newOrder.order_code \in DOMAIN pageOrders
      /\ srv[newOrder.order_code].status \in {"used", "expired"})
       => <>[](LocalStatus(newOrder.order_code)
                 \in {"none", srv[newOrder.order_code].status}))

\* C20: when every order the page tracks is used or expired, the page sends
\* no further status request.
C20_PollingStops ==
  [][(/\ mounted
      /\ DOMAIN pageOrders /= {}
      /\ \A c \in DOMAIN pageOrders : pageOrders[c].otp_status \in {"used", "expired"})
       => requested' = requested]_vars

\* the delivery of a response whose polling effect was cancelled meanwhile
CancelledDelivery ==
  \E m \in inflight : m.cancelled /\ DeliverResponse(ThisTab, m)

\* C21: a cancelled poller starts no new status request, and a response that
\* was in flight when its polling effect was cancelled changes neither the
\* orders state of the page nor the local order store.
C21_CancelledPollNoSideEffect ==
  [][CancelledDelivery =>
       /\ requested' = requested
       /\ pageOrders' = pageOrders
       /\ localStorage' = localStorage
       /\ sessionStorage' = sessionStorage]_vars

\* a well-formed code that no order was ever saved or issued under
NeverIssued == "ZZ9999"

\* what getOrderByCode returns: the order, or null (here the empty tuple)
GetOrderByCodeReturn(S, orderCode) ==
  IF GetOrderByCodeFound(S, orderCode) THEN <<GetOrderByCode(S, orderCode)>> ELSE <<>>

\* C22: a lookup of a used or expired code never reports the same result as
\* the lookup of a code that was never issued.
C22_UsedOrExpiredDistinctFromUnknown ==
  \A c \in Codes :
    NotActive(ThisTab, c) =>
      GetOrderByCodeReturn(Store(ThisTab), c) /= GetOrderByCodeReturn(Store(ThisTab), NeverIssued)

\* a handleConfirmOrder step for the cart, whatever code the server would issue
ConfirmStep == \E c \in Codes : HandleConfirmOrderOfCart(ThisTab, c)

C24_BoundedDraws ==
  /\ attempts <= maxAttempts
  /\ attempts = maxAttempts =>
       generated /\ \E ms \in MsTails : code = FallbackCode(ms)

\* the hundredth draw has happened: every draw before collided
C24_Witness == attempts = maxAttempts /\ generated

\* C25: every code generateOrderCode returns, drawn or fallback, is two
\* uppercase letters followed by four digits, as isValidOrderCode demands.
C25_GeneratedCodeWellFormed == generated => isValidOrderCode(code)

\* generateOrderCode has returned the fallback code of a clock ending in 0024
C25_Witness == generated /\ code = FallbackCode(24)

\* the item lists of a request: some items, each with a quantity
ItemLists ==
  UNION {[S -> 1..MaxStock] : S \in (SUBSET MenuItems) \ {{}}}

C27_ReadsReturnLatestWrite ==
  [][\A c \in Codes :
       (/\ ret'.op = "markOrderAsUsed"
        /\ ret'.code = c
        /\ ret'.result
        /\ MarkOrderAsUsed(ThisTab, c)) =>
          ~GetOrderByCodeFound(Store(ThisTab), c)']_vars

\* C28: every deliver request carries the counter id of the counter selected
\* when it is sent, and item ids that all belong to that counter's group in the
\* loaded order.
C28_RequestMatchesSelectedCounter ==
  [][\A s \in Staff :
       (deliverRequest'[s] /= deliverRequest[s] /\ MarkAsDeliveredByCounter(s)) =>
          /\ deliverRequest'[s].counter_id = CounterIdOf(selectedCounter[s])
          /\ deliverRequest'[s].item_ids \subseteq DOMAIN CounterItems(s)]_vars

\* C29: every sync round is started by the initial load of the page or by a
\* tick of the 8-second interval, never by the completion of another round.
C29_RoundsOnlyOnLoadAndTicks ==
  startedBy \in {"none", "load", "interval"}

====
